---------------------------- MODULE Spec2Model ----------------------------
(***************************************************************************)
(* Transaction submission and confirmation pipeline of the custodial       *)
(* wallet backend:                                                         *)
(*   TransactionRetryService  executeWithRetry, waitForConfirmationWithRetry*)
(*   WalletService            sendTransaction (and its detached            *)
(*                            confirmation continuation),                  *)
(*                            getTransactionHistory                        *)
(* Every await of the TypeScript code is a point where another coroutine   *)
(* of the single-threaded event loop may run, so every action below is the *)
(* code between two awaits.                                                *)
(*                                                                         *)
(* Strings the code inspects (error messages and codes) are sequences of   *)
(* one-character strings, so that includes(), toUpperCase() and the two    *)
(* regular expressions are computed and not assumed.  The double quote is  *)
(* written DQ.                                                             *)
(***************************************************************************)
EXTENDS Integers, Sequences, FiniteSets, Bags, TLC

-----------------------------------------------------------------------------
(* String primitives                                                       *)

DQ == "dq"
WhiteSpace == {" ", "tab", "lf"}
Digits == <<"0","1","2","3","4","5","6","7","8","9">>
LowerAlpha ==
  <<"a","b","c","d","e","f","g","h","i","j","k","l","m","n","o","p","q","r","s","t","u","v",
    "w","x","y","z">>
UpperAlpha ==
  <<"A","B","C","D","E","F","G","H","I","J","K","L","M","N","O","P","Q","R","S","T","U","V",
    "W","X","Y","Z">>

IsDigit(ch) == \E i \in DOMAIN Digits : Digits[i] = ch

UpperChar(ch) ==
  IF \E i \in DOMAIN LowerAlpha : LowerAlpha[i] = ch
  THEN UpperAlpha[CHOOSE i \in DOMAIN LowerAlpha : LowerAlpha[i] = ch]
  ELSE ch

LowerChar(ch) ==
  IF \E i \in DOMAIN UpperAlpha : UpperAlpha[i] = ch
  THEN LowerAlpha[CHOOSE i \in DOMAIN UpperAlpha : UpperAlpha[i] = ch]
  ELSE ch

toUpperCase(s) == [i \in DOMAIN s |-> UpperChar(s[i])]
toLowerCase(s) == [i \in DOMAIN s |-> LowerChar(s[i])]

\* s.startsWith(p, i): p occurs in s at position i (1-based)
OccursAt(s, p, i) ==
  /\ i >= 1
  /\ i + Len(p) - 1 <= Len(s)
  /\ \A k \in 1..Len(p) : s[i + k - 1] = p[k]

\* s.includes(p)
Includes(s, p) == \E i \in 1..(Len(s) + 1) : OccursAt(s, p, i)

\* the end (exclusive) of the longest run of white space / digits / non-quotes from i
SpacesEnd(s, i) ==
  CHOOSE j \in i..(Len(s) + 1) :
    /\ \A k \in i..(j - 1) : s[k] \in WhiteSpace
    /\ (j = Len(s) + 1 \/ s[j] \notin WhiteSpace)

DigitsEnd(s, i) ==
  CHOOSE j \in i..(Len(s) + 1) :
    /\ \A k \in i..(j - 1) : IsDigit(s[k])
    /\ (j = Len(s) + 1 \/ ~IsDigit(s[j]))

NonQuoteEnd(s, i) ==
  CHOOSE j \in i..(Len(s) + 1) :
    /\ \A k \in i..(j - 1) : s[k] # DQ
    /\ (j = Len(s) + 1 \/ s[j] = DQ)

Min(S) == CHOOSE x \in S : \A y \in S : x <= y

-----------------------------------------------------------------------------
(* Bounds of the model                                                     *)

MaxCalls == 2       \* invocations of sendTransaction that can be in progress
MaxSends == 1       \* of these, the invocations that go through the whole pipeline
MaxHists == 1       \* invocations of getTransactionHistory
MaxFaults == 1      \* failures of persistence, notification and audit calls
MaxRecords == 11    \* invocations of recordGasUsage
MaxEstimates == 1   \* invocations of estimateGas on its own
MaxReruns == 1      \* runs of the continuation after its first
MaxAccesses == 3    \* invocations of getBalance and signMessage
RandomSteps == 2    \* Math.random() is one of 0/RandomSteps .. (RandomSteps-1)/RandomSteps

-----------------------------------------------------------------------------
(* TransactionRetryService: configuration                                  *)

\* DEFAULT_RETRY_CONFIG
maxRetries == 3
initialDelayMs == 1000
maxDelayMs == 30000
backoffMultiplier == 2

P_NETWORK_ERROR ==
  <<"N","E","T","W","O","R","K","_","E","R","R","O","R">>

P_TIMEOUT ==
  <<"T","I","M","E","O","U","T">>

P_SERVER_ERROR ==
  <<"S","E","R","V","E","R","_","E","R","R","O","R">>

P_INSUFFICIENT_FUNDS ==
  <<"I","N","S","U","F","F","I","C","I","E","N","T","_","F","U","N","D","S">>

P_NONCE_TOO_LOW ==
  <<"N","O","N","C","E","_","T","O","O","_","L","O","W">>

P_REPLACEMENT_UNDERPRICED ==
  <<"R","E","P","L","A","C","E","M","E","N","T","_","U","N","D","E","R","P","R","I","C","E",
   "D">>

P_UNPREDICTABLE_GAS_LIMIT ==
  <<"U","N","P","R","E","D","I","C","T","A","B","L","E","_","G","A","S","_","L","I","M","I",
   "T">>

P_UNKNOWN_ERROR ==
  <<"U","N","K","N","O","W","N","_","E","R","R","O","R">>

P_NOT_IMPLEMENTED ==
  <<"N","O","T","_","I","M","P","L","E","M","E","N","T","E","D">>

retryableErrors ==
  <<P_NETWORK_ERROR, P_TIMEOUT, P_SERVER_ERROR, P_INSUFFICIENT_FUNDS, P_NONCE_TOO_LOW,
    P_REPLACEMENT_UNDERPRICED, P_UNPREDICTABLE_GAS_LIMIT>>

\* the "specific ethers error codes" of isRetryableError
retryableCodes ==
  <<P_NETWORK_ERROR, P_TIMEOUT, P_SERVER_ERROR, P_UNKNOWN_ERROR, P_NOT_IMPLEMENTED>>

P_RATE ==
  <<"R","A","T","E">>

P_THROTTL ==
  <<"T","H","R","O","T","T","L">>

P_ETIMEDOUT ==
  <<"E","T","I","M","E","D","O","U","T">>

P_ECONNREFUSED ==
  <<"E","C","O","N","N","R","E","F","U","S","E","D">>

P_ENOTFOUND ==
  <<"E","N","O","T","F","O","U","N","D">>

P_ECONNRESET ==
  <<"E","C","O","N","N","R","E","S","E","T">>

P_coalesce ==
  <<"c","o","u","l","d"," ","n","o","t"," ","c","o","a","l","e","s","c","e"," ","e","r","r","o",
   "r">>

P_message ==
  <<"m","e","s","s","a","g","e">>

P_minimumNeeded ==
  <<"m","i","n","i","m","u","m"," ","n","e","e","d","e","d"," ">>

P_intrinsicGasTooLow ==
  <<"i","n","t","r","i","n","s","i","c"," ","g","a","s"," ","t","o","o"," ","l","o","w">>

P_insufficientFunds ==
  <<"i","n","s","u","f","f","i","c","i","e","n","t"," ","f","u","n","d","s">>

P_gasRequiredExceeds ==
  <<"g","a","s"," ","r","e","q","u","i","r","e","d"," ","e","x","c","e","e","d","s"," ","a","l",
   "l","o","w","a","n","c","e">>

P_replacementUnderpriced ==
  <<"r","e","p","l","a","c","e","m","e","n","t"," ","t","r","a","n","s","a","c","t","i","o","n",
   " ","u","n","d","e","r","p","r","i","c","e","d">>

P_nonceTooLow ==
  <<"n","o","n","c","e"," ","t","o","o"," ","l","o","w">>

P_alreadyKnown ==
  <<"a","l","r","e","a","d","y"," ","k","n","o","w","n">>

P_maxFeeLessThanBase ==
  <<"m","a","x"," ","f","e","e"," ","p","e","r"," ","g","a","s"," ","l","e","s","s"," ","t","h",
   "a","n"," ","b","l","o","c","k"," ","b","a","s","e"," ","f","e","e">>

P_executionReverted ==
  <<"e","x","e","c","u","t","i","o","n"," ","r","e","v","e","r","t","e","d">>

P_timeout ==
  <<"t","i","m","e","o","u","t">>

P_etimedout ==
  <<"e","t","i","m","e","d","o","u","t">>

P_network ==
  <<"n","e","t","w","o","r","k">>

P_connection ==
  <<"c","o","n","n","e","c","t","i","o","n">>

C_NONCE_EXPIRED ==
  <<"N","O","N","C","E","_","E","X","P","I","R","E","D">>

C_CALL_EXCEPTION ==
  <<"C","A","L","L","_","E","X","C","E","P","T","I","O","N">>

C_INVALID_ARGUMENT ==
  <<"I","N","V","A","L","I","D","_","A","R","G","U","M","E","N","T">>

M_networkError ==
  <<"n","e","t","w","o","r","k"," ","e","r","r","o","r">>

M_requestTimeout ==
  <<"r","e","q","u","e","s","t"," ","t","i","m","e","o","u","t">>

M_nonceTooLow ==
  <<"n","o","n","c","e"," ","t","o","o"," ","l","o","w">>

M_insufficientFunds ==
  <<"i","n","s","u","f","f","i","c","i","e","n","t"," ","f","u","n","d","s"," ","f","o","r"," ",
   "i","n","t","r","i","n","s","i","c"," ","t","r","a","n","s","a","c","t","i","o","n"," ","c",
   "o","s","t">>

M_executionReverted ==
  <<"e","x","e","c","u","t","i","o","n"," ","r","e","v","e","r","t","e","d">>

M_rateLimit ==
  <<"r","a","t","e"," ","l","i","m","i","t"," ","e","x","c","e","e","d","e","d">>

M_badGateway ==
  <<"b","a","d"," ","g","a","t","e","w","a","y">>

M_invalidAddress ==
  <<"i","n","v","a","l","i","d"," ","a","d","d","r","e","s","s">>

M_txReverted ==
  <<"T","r","a","n","s","a","c","t","i","o","n"," ","r","e","v","e","r","t","e","d",":"," ">>

-----------------------------------------------------------------------------
(* Errors.  An error is [code, message]; code <<>> is an error without a   *)
(* code property.  ErrorCatalog is the sample of provider errors the       *)
(* environment raises.                                                     *)

NoCode == <<>>

\* a message of more than 100 characters that matches no known phrase
M_long == [i \in 1..101 |-> "x"]

\* could not coalesce error (error={ "code": -32000, "message": "intrinsic gas too low:
\* minimum needed 21000" })
M_coalesce ==
  P_coalesce \o <<" ","(","e","r","r","o","r","=","{"," ",DQ,"c","o","d","e",DQ,":"," ","-","3",
    "2","0","0","0",","," ",DQ>> \o P_message \o <<DQ,":"," ",DQ>> \o P_intrinsicGasTooLow \o
  <<":"," ">> \o P_minimumNeeded \o <<"2","1","0","0","0",DQ," ","}",")">>

ErrorCatalog ==
  <<[code |-> P_NETWORK_ERROR, message |-> M_networkError],
    [code |-> P_TIMEOUT, message |-> M_requestTimeout],
    [code |-> C_NONCE_EXPIRED, message |-> M_nonceTooLow],
    [code |-> P_INSUFFICIENT_FUNDS, message |-> M_insufficientFunds],
    [code |-> C_CALL_EXCEPTION, message |-> M_executionReverted],
    [code |-> NoCode, message |-> M_rateLimit],
    [code |-> P_UNKNOWN_ERROR, message |-> M_coalesce],
    [code |-> P_SERVER_ERROR, message |-> M_long],
    [code |-> P_SERVER_ERROR, message |-> M_badGateway],
    [code |-> C_INVALID_ARGUMENT, message |-> M_invalidAddress],
    [code |-> P_TIMEOUT, message |-> <<>>]>>

\* lastError?.message || 'Transaction failed'
M_txFailed == <<"T","r","a","n","s","a","c","t","i","o","n"," ","f","a","i","l","e","d">>
MessageOf(error) == IF error.message # <<>> THEN error.message ELSE M_txFailed

ErrIds == DOMAIN ErrorCatalog
NoError == 0

-----------------------------------------------------------------------------
(* TransactionRetryService: pure helpers                                   *)

\* isRetryableError(error)
isRetryableError(error) ==
  LET errorMessage == toUpperCase(error.message)
      hasCode == error.code # NoCode
      errorCode == toUpperCase(error.code)
  IN \/ \E k \in DOMAIN retryableErrors :
          \/ Includes(errorMessage, retryableErrors[k])
          \/ (hasCode /\ errorCode = retryableErrors[k])
     \/ (hasCode /\ \E k \in DOMAIN retryableCodes : retryableCodes[k] = errorCode)
     \/ Includes(errorMessage, P_RATE)
     \/ Includes(errorMessage, P_THROTTL)
     \/ Includes(errorMessage, P_ETIMEDOUT)
     \/ Includes(errorMessage, P_ECONNREFUSED)
     \/ Includes(errorMessage, P_ENOTFOUND)
     \/ Includes(errorMessage, P_ECONNRESET)

\* parseInt(d).toLocaleString() on a run of digits (en-US grouping)
StripZeros(d) ==
  LET nz == {i \in DOMAIN d : d[i] # "0"}
  IN IF nz = {} THEN <<"0">> ELSE SubSeq(d, Min(nz), Len(d))

RECURSIVE Group3(_)
Group3(d) ==
  IF Len(d) <= 3 THEN d
  ELSE Group3(SubSeq(d, 1, Len(d) - 3)) \o <<",">> \o SubSeq(d, Len(d) - 2, Len(d))

toLocaleString(d) == Group3(StripZeros(d))

\* message.match(/minimum needed (\d+)/): the captured digits, or <<>> without a match
MatchMinimumNeeded(message) ==
  LET at == {i \in 1..Len(message) :
               /\ OccursAt(message, P_minimumNeeded, i)
               /\ DigitsEnd(message, i + Len(P_minimumNeeded)) > i + Len(P_minimumNeeded)}
  IN IF at = {} THEN <<>>
     ELSE LET b == Min(at) + Len(P_minimumNeeded)
          IN SubSeq(message, b, DigitsEnd(message, b) - 1)

\* message.match(/"message"\s*:\s*"([^"]+)"/): the captured text, or <<>> without a match
QuotedMessage == <<DQ>> \o P_message \o <<DQ>>

InnerStart(message, i) ==
  \* the position of the first captured character for a match starting at i, or 0
  IF ~OccursAt(message, QuotedMessage, i) THEN 0
  ELSE LET c == SpacesEnd(message, i + Len(QuotedMessage))
       IN IF ~(c <= Len(message) /\ message[c] = ":") THEN 0
          ELSE LET q == SpacesEnd(message, c + 1)
               IN IF ~(q <= Len(message) /\ message[q] = DQ) THEN 0
                  ELSE LET e == NonQuoteEnd(message, q + 1)
                       IN IF e > q + 1 /\ e <= Len(message) THEN q + 1 ELSE 0

MatchInnerMessage(message) ==
  LET at == {i \in 1..Len(message) : InnerStart(message, i) # 0}
  IN IF at = {} THEN <<>>
     ELSE LET b == InnerStart(message, Min(at))
          IN SubSeq(message, b, NonQuoteEnd(message, b) - 1)

\* A user-facing sentence: a fixed text, followed by the interpolated part (if any)
Sentence(text, arg) == [text |-> text, arg |-> arg]

\* getReadableErrorMessage(message)
getReadableErrorMessage(message) ==
  LET lowerMessage == toLowerCase(message)
      gasMatch == MatchMinimumNeeded(message)
      minGas == IF gasMatch # <<>> THEN toLocaleString(gasMatch)
                ELSE <<"2","1",",","0","0","0">>
  IN IF Includes(lowerMessage, P_intrinsicGasTooLow)
       THEN Sentence("Transaction failed: Gas limit too low. Please set at least ${minGas} gas",
                     minGas)
     ELSE IF Includes(lowerMessage, P_insufficientFunds)
       THEN Sentence("Transaction failed: Insufficient balance to cover transaction and gas fees",
                     <<>>)
     ELSE IF Includes(lowerMessage, P_gasRequiredExceeds)
       THEN Sentence("Transaction failed: Gas limit exceeded. Please increase the gas limit", <<>>)
     ELSE IF Includes(lowerMessage, P_replacementUnderpriced)
       THEN Sentence("Transaction failed: A transaction is already pending. Increase gas price to replace it",
                     <<>>)
     ELSE IF Includes(lowerMessage, P_nonceTooLow)
       THEN Sentence("Transaction failed: Transaction conflict detected. Please try again", <<>>)
     ELSE IF Includes(lowerMessage, P_alreadyKnown)
       THEN Sentence("Transaction failed: This transaction has already been submitted", <<>>)
     ELSE IF Includes(lowerMessage, P_maxFeeLessThanBase)
       THEN Sentence("Transaction failed: Gas price too low for current network conditions", <<>>)
     ELSE IF Includes(lowerMessage, P_executionReverted)
       THEN Sentence("Transaction failed: Transaction would fail. Please verify the recipient address and amount",
                     <<>>)
     ELSE IF Includes(lowerMessage, P_timeout) \/ Includes(lowerMessage, P_etimedout)
       THEN Sentence("Transaction failed: Network timeout. Please try again", <<>>)
     ELSE IF Includes(lowerMessage, P_network) \/ Includes(lowerMessage, P_connection)
       THEN Sentence("Transaction failed: Network connection error. Please check your connection",
                     <<>>)
     ELSE IF Len(message) > 100
       THEN Sentence("Transaction failed. Please check your inputs and try again", <<>>)
     ELSE Sentence("Transaction failed: ${message}", message)

\* parseErrorMessage(message)
parseErrorMessage(message) ==
  IF Includes(message, P_coalesce)
  THEN LET innerMessage == MatchInnerMessage(message)
       IN IF innerMessage # <<>> THEN getReadableErrorMessage(innerMessage)
          ELSE Sentence("Transaction failed. Please check gas settings and try again", <<>>)
  ELSE getReadableErrorMessage(message)

\* calculateDelay(attempt), Math.random() = r / RandomSteps; whole milliseconds
RECURSIVE Pow(_, _)
Pow(b, e) == IF e = 0 THEN 1 ELSE b * Pow(b, e - 1)

Randoms == 0..(RandomSteps - 1)

\* a delay whose jitter factor is Math.random() alone, without the 0.5 floor
calculateDelayFullJitter(attempt, r) ==
  LET exponentialDelay == initialDelayMs * Pow(backoffMultiplier, attempt - 1)
      jitteredDelay == (exponentialDelay * r) \div RandomSteps
  IN IF jitteredDelay < maxDelayMs THEN jitteredDelay ELSE maxDelayMs

calculateDelay(attempt, r) ==
  LET exponentialDelay == initialDelayMs * Pow(backoffMultiplier, attempt - 1)
      \* exponentialDelay * (0.5 + r/RandomSteps * 0.5)
      jitteredDelay == (exponentialDelay * (RandomSteps + r)) \div (2 * RandomSteps)
  IN IF jitteredDelay < maxDelayMs THEN jitteredDelay ELSE maxDelayMs

-----------------------------------------------------------------------------
(* GasEstimationService.  Prices and amounts are counted in gwei (the unit *)
(* of SendTransactionRequest.gasPrice), so that gasLimit * price stays a   *)
(* machine integer; Absent is JavaScript's undefined/null.                 *)

Absent == -1

\* a bigint or number operand of `!x`, `x && ..`, `x || ..`
Truthy(x) == x # Absent /\ x # 0

\* DEFAULT_CONFIG
bufferPercentage == 20
priorityPercent == 150
maxGasPrice == 500
useEIP1559 == TRUE

TransferGas == 21000
ContractGas == 100000
FallbackGasLimit == 100000
FallbackGasPrice == 30
DefaultGasPrice == 20
LowCongestionBelow == 20
MediumCongestionBelow == 50

\* provider.estimateGas / provider.getFeeData threw
Failed == [failed |-> TRUE]

FeeData(gp, mf, mp) ==
  [failed |-> FALSE, gasPrice |-> gp, maxFeePerGas |-> mf, maxPriorityFeePerGas |-> mp]

\* Math.floor(getUrgencyMultiplier(urgency) * 100)
getUrgencyPercent(urgency) ==
  CASE urgency = "low" -> 90
    [] urgency = "medium" -> 100
    [] urgency = "high" -> priorityPercent
    [] OTHER -> 100

\* estimateGasLimit(transaction); estimated = Absent when provider.estimateGas throws
estimateGasLimit(estimated, hasData) ==
  IF estimated # Absent
  THEN (estimated * (100 + bufferPercentage)) \div 100
  ELSE IF ~hasData THEN (TransferGas * 120) \div 100 ELSE (ContractGas * 120) \div 100

Pricing(gp, mf, mp) == [gasPrice |-> gp, maxFeePerGas |-> mf, maxPriorityFeePerGas |-> mp]

\* getGasPricing(urgency), feeData being what provider.getFeeData() returned
getGasPricing(feeData, urgency) ==
  IF useEIP1559 /\ Truthy(feeData.maxFeePerGas) /\ Truthy(feeData.maxPriorityFeePerGas)
  THEN LET maxPriorityFeePerGas ==
             (feeData.maxPriorityFeePerGas * getUrgencyPercent(urgency)) \div 100
           maxFeePerGas == feeData.maxFeePerGas + maxPriorityFeePerGas
           cappedMaxFee == IF maxFeePerGas > maxGasPrice THEN maxGasPrice ELSE maxFeePerGas
       IN Pricing(Absent, cappedMaxFee, maxPriorityFeePerGas)
  ELSE IF Truthy(feeData.gasPrice)
  THEN LET adjustedGasPrice == (feeData.gasPrice * getUrgencyPercent(urgency)) \div 100
           cappedGasPrice ==
             IF adjustedGasPrice > maxGasPrice THEN maxGasPrice ELSE adjustedGasPrice
       IN Pricing(cappedGasPrice, Absent, Absent)
  ELSE Pricing(DefaultGasPrice, Absent, Absent)

\* calculateEstimatedCost(gasLimit, pricing)
calculateEstimatedCost(gasLimit, pricing) ==
  IF Truthy(pricing.maxFeePerGas) THEN gasLimit * pricing.maxFeePerGas
  ELSE IF Truthy(pricing.gasPrice) THEN gasLimit * pricing.gasPrice
  ELSE gasLimit * DefaultGasPrice

\* detectCongestion()
detectCongestion(feeData) ==
  IF feeData.failed THEN "medium"
  ELSE LET gasPrice == IF Truthy(feeData.gasPrice) THEN feeData.gasPrice
                       ELSE feeData.maxFeePerGas
       IN IF ~Truthy(gasPrice) THEN "medium"
          ELSE IF gasPrice < LowCongestionBelow THEN "low"
          ELSE IF gasPrice < MediumCongestionBelow THEN "medium"
          ELSE "high"

RECURSIVE SumSeq(_)
SumSeq(s) == IF s = <<>> THEN 0 ELSE Head(s) + SumSeq(Tail(s))

\* applyHistoricalAdjustment(address, estimatedGasLimit), history = the address's entry
applyHistoricalAdjustment(history, estimatedGasLimit) ==
  IF history = <<>> THEN estimatedGasLimit
  ELSE LET averageUsage == SumSeq(history) \div Len(history)
       IN IF averageUsage > estimatedGasLimit THEN (averageUsage * 110) \div 100
          ELSE estimatedGasLimit

\* getFallbackEstimate()
getFallbackEstimate ==
  [gasLimit |-> FallbackGasLimit, gasPrice |-> FallbackGasPrice, maxFeePerGas |-> Absent,
   maxPriorityFeePerGas |-> Absent, estimatedCost |-> FallbackGasLimit * FallbackGasPrice,
   isEIP1559 |-> FALSE, congestionLevel |-> "medium"]

\* an estimateGas without its try/catch: a failing getFeeData propagates to the caller
estimateGasUnguarded(estimated, hasData, feeData, congestionData, history, urgency) ==
  IF feeData.failed
  THEN [getFallbackEstimate EXCEPT !.gasLimit = Absent, !.gasPrice = Absent,
                                   !.estimatedCost = Absent, !.congestionLevel = "thrown"]
  ELSE LET estimatedGasLimit == estimateGasLimit(estimated, hasData)
           gasPricing == getGasPricing(feeData, urgency)
           estimatedCost == calculateEstimatedCost(estimatedGasLimit, gasPricing)
           congestionLevel == detectCongestion(congestionData)
           adjustedGasLimit == applyHistoricalAdjustment(history, estimatedGasLimit)
       IN [gasLimit |-> adjustedGasLimit, gasPrice |-> gasPricing.gasPrice,
           maxFeePerGas |-> gasPricing.maxFeePerGas,
           maxPriorityFeePerGas |-> gasPricing.maxPriorityFeePerGas,
           estimatedCost |-> estimatedCost,
           isEIP1559 |-> Truthy(gasPricing.maxFeePerGas),
           congestionLevel |-> congestionLevel]

\* estimateGas(transaction, urgency): estimated, feeData and congestionData are what the
\* three provider calls returned, history the historicalGasUsage entry of transaction.to
estimateGas(estimated, hasData, feeData, congestionData, history, urgency) ==
  IF feeData.failed THEN getFallbackEstimate
  ELSE LET estimatedGasLimit == estimateGasLimit(estimated, hasData)
           gasPricing == getGasPricing(feeData, urgency)
           estimatedCost == calculateEstimatedCost(estimatedGasLimit, gasPricing)
           congestionLevel == detectCongestion(congestionData)
           adjustedGasLimit == applyHistoricalAdjustment(history, estimatedGasLimit)
       IN [gasLimit |-> adjustedGasLimit, gasPrice |-> gasPricing.gasPrice,
           maxFeePerGas |-> gasPricing.maxFeePerGas,
           maxPriorityFeePerGas |-> gasPricing.maxPriorityFeePerGas,
           estimatedCost |-> estimatedCost,
           isEIP1559 |-> Truthy(gasPricing.maxFeePerGas),
           congestionLevel |-> congestionLevel]

\* WalletService.determineTransactionUrgency(amount); amounts in gwei (1 ETH = 10^9 gwei)
SmallTransferBelow == 10000000
LargeTransferFrom == 1000000000

determineTransactionUrgency(amount) ==
  IF amount < SmallTransferBelow THEN "low"
  ELSE IF amount < LargeTransferFrom THEN "medium"
  ELSE "high"

-----------------------------------------------------------------------------
(* State                                                                   *)

Calls == 1..MaxCalls        \* invocations of sendTransaction
Senders == 1..MaxSends      \* the invocations that are followed from their start
Hists == 1..MaxHists        \* invocations of getTransactionHistory

\* the hash of the transaction that attempt k (1-based) of call c broadcasts
HashOf(c, k) == (c - 1) * maxRetries + k
Hashes == 1..(MaxCalls * maxRetries)
NoHash == 0

VARIABLES
  pc,           \* [Calls -> position of the sendTransaction coroutine]
  req,          \* [Calls -> SendTransactionRequest and whether getWallet finds the wallet]
  tx,           \* [Calls -> the TransactionRequest handed to / adjusted by executeWithRetry]
  retry,        \* [Calls -> locals of executeWithRetry and what it did]
  seenBalance,  \* [Calls -> what provider.getBalance returned, Absent before]
  estimate,     \* [Calls -> the GasEstimate used, or NoEstimate]
  result,       \* [Calls -> what sendTransaction returned or raised]
  conf,         \* [Calls -> the confirmation continuation: position, locals of
                \*           waitForConfirmationWithRetry, the savedTransaction entity]
  hist,         \* [Hists -> position of getTransactionHistory and, per hash, the
                \*           position and entity of its Promise.all branch]
  db,           \* [Hashes -> row of the transactions table, status "absent" before insert]
  chain,        \* [Hashes -> "none" | "mempool" | "success" | "reverted"]
  chainNonce,   \* the account's pending nonce: transactions the network accepted
  notes,        \* bag of the payloads WebSocketService.emitTransactionUpdate was called with
  audits,       \* bag of the rows of the audit log
  writes,       \* bag of the writes to the transactions table
  faults,       \* collaborator failures (persistence, notification, audit) injected so far
  gas,          \* GasEstimationService: historicalGasUsage, and what estimateGas and
                \* recordGasUsage were called with and returned
  access        \* the private keys decrypted, and what getBalance and signMessage did

vars ==
  <<pc, req, tx, retry, seenBalance, estimate, result, conf, hist, db, chain, chainNonce,
    notes, audits, writes, faults, gas, access>>

\* the receipt of a mined transaction
BlockOf(h) == 12345 + h
GasUsedOf(h) == TransferGas

Receipt(h) ==
  [status |-> IF chain[h] = "success" THEN 1 ELSE 0, blockNumber |-> BlockOf(h),
   gasUsed |-> GasUsedOf(h)]

Mined(h) == chain[h] \in {"success", "reverted"}

\* a Transaction entity / row: the columns the pipeline writes
Row(walletId, hash, from, to, amount, gasPrice, status, blockNumber, gasUsed) ==
  [walletId |-> walletId, transactionHash |-> hash, from |-> from, to |-> to,
   amount |-> amount, gasPrice |-> gasPrice, status |-> status, blockNumber |-> blockNumber,
   gasUsed |-> gasUsed]

NoRow == Row(Absent, NoHash, "", "", Absent, Absent, "absent", Absent, Absent)

\* a save that writes a new row for the hash with the status, the block number and the
\* gas used alone
SaveRowAnew(row, entity) ==
  [NoRow EXCEPT !.transactionHash = entity.transactionHash, !.status = entity.status,
                !.blockNumber = entity.blockNumber, !.gasUsed = entity.gasUsed]

\* Repository.save(entity) of an entity that has a row: the columns the entity defines
\* are written, a property that is undefined is left as it is in the row
SaveRow(row, entity) ==
  [row EXCEPT !.walletId = entity.walletId,
              !.transactionHash = entity.transactionHash,
              !.from = entity.from,
              !.to = entity.to,
              !.amount = entity.amount,
              !.gasPrice = IF entity.gasPrice # Absent THEN entity.gasPrice ELSE @,
              !.status = entity.status,
              !.blockNumber = IF entity.blockNumber # Absent THEN entity.blockNumber ELSE @,
              !.gasUsed = IF entity.gasUsed # Absent THEN entity.gasUsed ELSE @]

NoEstimate == [getFallbackEstimate EXCEPT !.gasLimit = Absent, !.gasPrice = Absent,
                                           !.estimatedCost = Absent]
NoTx == [gasLimit |-> Absent, gasPrice |-> Absent, maxFeePerGas |-> Absent,
         maxPriorityFeePerGas |-> Absent, nonce |-> Absent]
NoRetry == [attempt |-> 0, lastError |-> NoError, sends |-> 0, sleeps |-> 0, lastDelay |-> 0,
            hash |-> NoHash, nonce |-> Absent, pinned |-> FALSE,
            caller |-> "sendTransaction"]
NoResult == [kind |-> "none", error |-> "", message |-> Sentence("", <<>>),
             transactionHash |-> NoHash, status |-> ""]
NoOutcome == [kind |-> "none", status |-> Absent, blockNumber |-> Absent, gasUsed |-> Absent]
NoConf == [pc |-> "off", attempt |-> 0, waits |-> 0, sleeps |-> 0, receipts |-> 0,
           outcome |-> NoOutcome, entity |-> NoRow, runs |-> 0, previous |-> NoOutcome]
NoBranch == [pc |-> "off", read |-> "absent", entity |-> NoRow]
NoHist == [pc |-> "idle", walletOk |-> TRUE, branch |-> [h \in Hashes |-> NoBranch],
           returned |-> [h \in Hashes |-> "absent"]]

WalletId == 1

NoAccess == [calls |-> 0, decrypts |-> 0, balanceReads |-> 0, signatures |-> 0,
             last |-> [op |-> "", walletOk |-> TRUE, error |-> ""]]

\* the addresses transactions are sent to; "" is a transaction without `to`
Addresses == {"", "to1", "to2"}
Recipient == "to1"

\* wallet.address of the account
WalletAddress == "from1"

\* the arguments of an estimateGas call and what the provider answered during it
NoCall == [address |-> "", estimated |-> Absent, hasData |-> FALSE, feeData |-> Failed,
           congestionData |-> Failed, urgency |-> ""]

\* the service after construction: historicalGasUsage is empty; recorded counts the
\* recordGasUsage calls per address, estimates the estimateGas calls
NoGas == [history |-> [a \in Addresses |-> <<>>], recorded |-> [a \in Addresses |-> 0],
          estimates |-> 0, call |-> NoCall, plan |-> NoEstimate]

InitPipeline(failures) ==
  /\ pc = [c \in Calls |-> "idle"]
  /\ req = [c \in Calls |-> [walletOk |-> TRUE, amount |-> 0, gasLimit |-> Absent,
                             gasPrice |-> Absent]]
  /\ tx = [c \in Calls |-> NoTx]
  /\ retry = [c \in Calls |-> NoRetry]
  /\ seenBalance = [c \in Calls |-> Absent]
  /\ estimate = [c \in Calls |-> NoEstimate]
  /\ result = [c \in Calls |-> NoResult]
  /\ conf = [c \in Calls |-> NoConf]
  /\ hist = [h \in Hists |-> NoHist]
  /\ db = [h \in Hashes |-> NoRow]
  /\ chain = [h \in Hashes |-> "none"]
  /\ chainNonce = 0
  /\ notes = EmptyBag
  /\ audits = EmptyBag
  /\ writes = EmptyBag
  /\ faults = failures
  /\ gas = NoGas
  /\ access = NoAccess

Init == InitPipeline(0)

\* no failure of a collaborator is left to inject
InitReliable == InitPipeline(MaxFaults)

\* the TransactionRequests executeWithRetry is called with on its own
DirectRequests ==
  [gasLimit : {Absent, 50000}, gasPrice : {Absent, 30}, maxFeePerGas : {Absent},
   maxPriorityFeePerGas : {Absent}, nonce : {Absent, 0, 2}]

InitRetry ==
  /\ pc = [c \in Calls |-> IF c \in Senders THEN "prepare" ELSE "idle"]
  /\ req = [c \in Calls |-> [walletOk |-> TRUE, amount |-> 0, gasLimit |-> Absent,
                             gasPrice |-> Absent]]
  /\ tx \in {t \in [Calls -> DirectRequests] : \A c \in Calls \ Senders : t[c] = NoTx}
  /\ retry = [c \in Calls |->
                IF c \in Senders
                THEN [NoRetry EXCEPT !.caller = "direct", !.pinned = tx[c].nonce # Absent]
                ELSE NoRetry]
  /\ seenBalance = [c \in Calls |-> Absent]
  /\ estimate = [c \in Calls |-> NoEstimate]
  /\ result = [c \in Calls |-> NoResult]
  /\ conf = [c \in Calls |-> NoConf]
  /\ hist = [h \in Hists |-> NoHist]
  /\ db = [h \in Hashes |-> NoRow]
  /\ chain = [h \in Hashes |-> "none"]
  /\ chainNonce \in {0, 2}
  /\ notes = EmptyBag
  /\ audits = EmptyBag
  /\ writes = EmptyBag
  /\ faults = MaxFaults
  /\ gas = NoGas
  /\ access = NoAccess

\* A collaborator call (persistence, notification, audit repository) may fail
MayFail == faults < MaxFaults

Note(by, hash, status, blockNumber, gasUsed, error) ==
  [by |-> by, transactionHash |-> hash, status |-> status, blockNumber |-> blockNumber,
   gasUsed |-> gasUsed, error |-> error]

Audit(by, eventType, hash) == [by |-> by, eventType |-> eventType, transactionHash |-> hash]

Write(by, hash, from, to) == [by |-> by, transactionHash |-> hash, from |-> from, to |-> to]

NoText == Sentence("", <<>>)

\* one more copy of e in bag b
Put(b, e) == b (+) SetToBag({e})

-----------------------------------------------------------------------------
(* Inputs and environment                                                  *)

Amounts == {5000000}
GasLimits == {Absent, 50000}
GasPrices == {Absent, 30}
Requests == [walletOk : BOOLEAN, amount : Amounts, gasLimit : GasLimits, gasPrice : GasPrices]

\* what provider.estimateGas and provider.getFeeData may answer (Absent / Failed: it threw)
EstimateResults == {Absent, TransferGas}
FeeDatas == {Failed, FeeData(25, Absent, Absent), FeeData(18, 30, 3)}

\* The errors a submission attempt may raise.  executeWithRetry called on its own is
\* explored with the whole catalog, every value of Math.random() and answers that get
\* lost after the network accepted the transaction (the caller sees a timeout); called
\* by sendTransaction, with one retryable and one fatal error, which is all the rest of
\* the pipeline can tell apart
PipelineErrors == {1, 5}
LostAnswerErrors == {2}
SubmitErrors(c) == IF retry[c].caller = "direct" THEN ErrIds ELSE PipelineErrors
LostAnswers(c) == IF retry[c].caller = "direct" THEN LostAnswerErrors ELSE {}
RandomsOf(c) == IF retry[c].caller = "direct" THEN Randoms ELSE {0}

\* isRetryableError and parseErrorMessage of the catalog's errors
Retryable == {e \in ErrIds : isRetryableError(ErrorCatalog[e])}
Normalized == [e \in ErrIds |-> parseErrorMessage(MessageOf(ErrorCatalog[e]))]

UsesEstimator(r) == ~Truthy(r.gasLimit) \/ r.gasPrice = Absent

\* the cost the balance has to cover besides the amount: the estimate's, or gasLimit *
\* gasPrice as the caller declared them
DeclaredCost(c) ==
  IF UsesEstimator(req[c]) THEN estimate[c].estimatedCost
  ELSE req[c].gasLimit * req[c].gasPrice

\* what provider.getBalance may answer: below the amount, one short of amount + cost, enough
Balances(c) ==
  {req[c].amount - 1, req[c].amount + DeclaredCost(c) - 1, req[c].amount + DeclaredCost(c)}

-----------------------------------------------------------------------------
(* WalletService.sendTransaction, up to its return                         *)

Raised(name, message) == [NoResult EXCEPT !.kind = "raised", !.error = name, !.message = message]

\* a result that reports the status the record has when the call returns
ReturnedStored(hash) ==
  [NoResult EXCEPT !.kind = "returned", !.transactionHash = hash, !.status = db[hash].status]

Returned(hash) ==
  [NoResult EXCEPT !.kind = "returned", !.transactionHash = hash, !.status = "pending"]

\* AuditService.logTransactionOperation: the row is saved, or the failure is swallowed
Logged(entry) ==
  \/ /\ audits' = Put(audits, entry)
     /\ faults' = faults
  \/ /\ MayFail
     /\ audits' = audits
     /\ faults' = faults + 1

\* the manual branch: transactionRequest for caller-supplied gasLimit and gasPrice
ManualTx(r) == [NoTx EXCEPT !.gasLimit = r.gasLimit, !.gasPrice = r.gasPrice]

\* the estimator branch: transactionRequest from the request and the GasEstimate
EstimatedTx(r, gasEstimate) ==
  LET gasLimit == IF r.gasLimit # Absent THEN r.gasLimit ELSE gasEstimate.gasLimit
  IN IF Truthy(gasEstimate.maxFeePerGas) /\ Truthy(gasEstimate.maxPriorityFeePerGas)
     THEN [NoTx EXCEPT !.gasLimit = gasLimit, !.maxFeePerGas = gasEstimate.maxFeePerGas,
                       !.maxPriorityFeePerGas = gasEstimate.maxPriorityFeePerGas]
     ELSE IF r.gasPrice # Absent
     THEN [NoTx EXCEPT !.gasLimit = gasLimit, !.gasPrice = r.gasPrice]
     ELSE IF Truthy(gasEstimate.gasPrice)
     THEN [NoTx EXCEPT !.gasLimit = gasLimit, !.gasPrice = gasEstimate.gasPrice]
     ELSE [NoTx EXCEPT !.gasLimit = gasLimit]

\* getWallet, decrypt (counted in access), baseTransaction; calls are started in the order of their numbers
SendStart(c) ==
  /\ pc[c] = "idle"
  /\ \A d \in Calls : d < c => pc[d] # "idle"
  /\ \E r \in Requests :
       /\ req' = [req EXCEPT ![c] = r]
       /\ access' = IF r.walletOk THEN [access EXCEPT !.decrypts = @ + 1] ELSE access
       /\ IF ~r.walletOk
          THEN /\ result' = [result EXCEPT ![c] = Raised("NotFoundError", NoText)]
               /\ pc' = [pc EXCEPT ![c] = "raised"]
               /\ tx' = tx
          ELSE IF UsesEstimator(r)
          THEN /\ pc' = [pc EXCEPT ![c] = "estimate"]
               /\ UNCHANGED <<result, tx>>
          ELSE /\ pc' = [pc EXCEPT ![c] = "balance"]
               /\ tx' = [tx EXCEPT ![c] = ManualTx(r)]
               /\ result' = result
  /\ UNCHANGED <<gas, retry, seenBalance, estimate, conf, hist, db, chain, chainNonce, notes,
                 audits, writes, faults>>

\* gasEstimationService.estimateGas and the gas_estimation audit entry
SendEstimate(c) ==
  /\ pc[c] = "estimate"
  /\ \E estimated \in EstimateResults, feeData \in FeeDatas, congestionData \in FeeDatas :
       LET gasEstimate ==
             estimateGas(estimated, FALSE, feeData, congestionData, gas.history[Recipient],
                         determineTransactionUrgency(req[c].amount))
       IN /\ estimate' = [estimate EXCEPT ![c] = gasEstimate]
          /\ tx' = [tx EXCEPT ![c] = EstimatedTx(req[c], gasEstimate)]
  /\ Logged(Audit(<<"send", c>>, "TRANSACTION_INITIATED", NoHash))
  /\ pc' = [pc EXCEPT ![c] = "balance"]
  /\ UNCHANGED <<access, gas, req, retry, seenBalance, result, conf, hist, db, chain, chainNonce, notes,
                 writes>>

\* provider.getBalance and the balance check of either branch
SendBalance(c) ==
  /\ pc[c] = "balance"
  /\ \E balance \in Balances(c) :
       LET totalCost == IF UsesEstimator(req[c])
                        THEN req[c].amount + estimate[c].estimatedCost
                        ELSE req[c].amount
       IN /\ seenBalance' = [seenBalance EXCEPT ![c] = balance]
          /\ IF balance < totalCost
             THEN /\ result' = [result EXCEPT ![c] = Raised("InsufficientBalanceError", NoText)]
                  /\ pc' = [pc EXCEPT ![c] = "raised"]
             ELSE /\ pc' = [pc EXCEPT ![c] = "prepare"]
                  /\ result' = result
  /\ UNCHANGED <<access, gas, req, tx, retry, estimate, conf, hist, db, chain, chainNonce, notes, audits,
                 writes, faults>>

-----------------------------------------------------------------------------
(* TransactionRetryService.executeWithRetry                                *)

\* adjustGasParameters(wallet, transaction, attempt): feeData, estimated and nonce are
\* what getFeeData, estimateGas and getTransactionCount(address, 'pending') answered
\* (Failed / Absent: the call threw)
adjustGasParameters(transaction, attempt, feeData, estimated, nonce) ==
  IF feeData.failed THEN transaction
  ELSE LET priced ==
             IF Truthy(feeData.gasPrice)
             THEN [transaction EXCEPT
                     !.gasPrice = (feeData.gasPrice * (100 + 10 * attempt)) \div 100]
             ELSE transaction
           limited ==
             IF ~Truthy(transaction.gasLimit)
             THEN [priced EXCEPT
                     !.gasLimit = IF estimated # Absent THEN (estimated * 120) \div 100
                                  ELSE ContractGas]
             ELSE priced
       IN IF ~Truthy(transaction.nonce) /\ nonce # Absent
          THEN [limited EXCEPT !.nonce = nonce]
          ELSE limited

\* the part of one pass of the loop before the broadcast: on a retry the gas
\* parameters are adjusted; wallet.sendTransaction then fills in a missing nonce with
\* the pending nonce
Prepare(c) ==
  /\ pc[c] = "prepare"
  /\ \E feeData \in FeeDatas, estimated \in EstimateResults, nonce \in {chainNonce, Absent} :
       LET transaction ==
             IF retry[c].attempt > 0
             THEN adjustGasParameters(tx[c], retry[c].attempt, feeData, estimated, nonce)
             ELSE tx[c]
       IN /\ tx' = [tx EXCEPT ![c] = transaction]
          /\ retry' = [retry EXCEPT ![c].nonce = IF transaction.nonce # Absent
                                                  THEN transaction.nonce ELSE chainNonce,
                                    ![c].hash = HashOf(c, retry[c].attempt + 1)]
  /\ pc' = [pc EXCEPT ![c] = "broadcast"]
  /\ UNCHANGED <<access, gas, req, seenBalance, estimate, result, conf, hist, db, chain, chainNonce, notes,
                 audits, writes, faults>>

\* a catch block that gives up silently when the attempts are used up: the caller goes
\* on as if the transaction had been sent
FailureSwallowed(c, e) ==
  LET lastError == ErrorCatalog[e]
      attempt == retry[c].attempt + 1
      failed == [retry[c] EXCEPT !.attempt = attempt, !.lastError = e, !.sends = @ + 1]
  IN IF e \notin Retryable
     THEN /\ retry' = [retry EXCEPT ![c] = failed]
          /\ result' = [result EXCEPT ![c] =
                          Raised("ProviderError", Sentence("${message}", lastError.message))]
          /\ pc' = [pc EXCEPT ![c] = "raised"]
     ELSE IF attempt < maxRetries
     THEN /\ \E r \in RandomsOf(c) :
               retry' = [retry EXCEPT ![c] =
                           [failed EXCEPT !.sleeps = @ + 1,
                                          !.lastDelay = calculateDelay(attempt, r)]]
          /\ pc' = [pc EXCEPT ![c] = "prepare"]
          /\ result' = result
     ELSE /\ retry' = [retry EXCEPT ![c] = failed]
          /\ result' = result
          /\ pc' = [pc EXCEPT ![c] = "persist"]

\* a catch block that sleeps after every failed attempt, the last one included, and
\* throws the last error's message as it came
FailureUnparsed(c, e) ==
  LET lastError == ErrorCatalog[e]
      attempt == retry[c].attempt + 1
      failed == [retry[c] EXCEPT !.attempt = attempt, !.lastError = e, !.sends = @ + 1]
  IN IF e \notin Retryable
     THEN /\ retry' = [retry EXCEPT ![c] = failed]
          /\ result' = [result EXCEPT ![c] =
                          Raised("ProviderError", Sentence("${message}", lastError.message))]
          /\ pc' = [pc EXCEPT ![c] = "raised"]
     ELSE IF attempt < maxRetries
     THEN /\ \E r \in RandomsOf(c) :
               retry' = [retry EXCEPT ![c] =
                           [failed EXCEPT !.sleeps = @ + 1,
                                          !.lastDelay = calculateDelay(attempt, r)]]
          /\ pc' = [pc EXCEPT ![c] = "prepare"]
          /\ result' = result
     ELSE /\ retry' = [retry EXCEPT ![c] = [failed EXCEPT !.sleeps = @ + 1]]
          /\ result' = [result EXCEPT ![c] =
                          Raised("Error", Sentence("${message}", lastError.message))]
          /\ pc' = [pc EXCEPT ![c] = "raised"]

\* the catch block of the loop, and the throw after it
Failure(c, e) ==
  LET lastError == ErrorCatalog[e]
      attempt == retry[c].attempt + 1
      failed == [retry[c] EXCEPT !.attempt = attempt, !.lastError = e, !.sends = @ + 1]
  IN IF e \notin Retryable
     THEN /\ retry' = [retry EXCEPT ![c] = failed]
          /\ result' = [result EXCEPT ![c] =
                          Raised("ProviderError", Sentence("${message}", lastError.message))]
          /\ pc' = [pc EXCEPT ![c] = "raised"]
     ELSE IF attempt < maxRetries
     THEN /\ \E r \in RandomsOf(c) :
               retry' = [retry EXCEPT ![c] =
                           [failed EXCEPT !.sleeps = @ + 1,
                                          !.lastDelay = calculateDelay(attempt, r)]]
          /\ pc' = [pc EXCEPT ![c] = "prepare"]
          /\ result' = result
     ELSE /\ retry' = [retry EXCEPT ![c] = failed]
          /\ result' = [result EXCEPT ![c] =
                          Raised("Error", Normalized[e])]
          /\ pc' = [pc EXCEPT ![c] = "raised"]

\* the network takes the transaction of this attempt into its pool
Accepted(c) ==
  LET h == retry[c].hash
  IN /\ retry[c].nonce = chainNonce
     /\ chain' = [chain EXCEPT ![h] = "mempool"]
     /\ chainNonce' = chainNonce + 1

\* executeWithRetry returns the TransactionResponse: its locals, the request and the
\* locals of sendTransaction that are not read again (gasEstimate, balance) are dropped
Sent(t) ==
  [NoRetry EXCEPT !.sends = t.sends + 1, !.sleeps = t.sleeps, !.hash = t.hash,
                  !.caller = t.caller]

\* wallet.sendTransaction(transaction) of one pass answers
Broadcast(c) ==
  /\ pc[c] = "broadcast"
  /\ \/ /\ Accepted(c)
        /\ retry' = [retry EXCEPT ![c] = Sent(retry[c])]
        /\ pc' = [pc EXCEPT ![c] = "persist"]
        /\ tx' = [tx EXCEPT ![c] = NoTx]
        /\ estimate' = [estimate EXCEPT ![c] = NoEstimate]
        /\ seenBalance' = [seenBalance EXCEPT ![c] = Absent]
        /\ result' = result
     \/ /\ Accepted(c)
        /\ \E e \in LostAnswers(c) : Failure(c, e)
        /\ UNCHANGED <<tx, estimate, seenBalance>>
     \/ /\ \E e \in SubmitErrors(c) : Failure(c, e)
        /\ UNCHANGED <<chain, chainNonce, tx, estimate, seenBalance>>
  /\ UNCHANGED <<access, gas, req, conf, hist, db, notes, audits, writes, faults>>

\* transactionRepository.save of the new record, then the pending notification
SendPersist(c) ==
  /\ pc[c] = "persist"
  /\ LET h == retry[c].hash
         row == Row(WalletId, h, WalletAddress, Recipient, req[c].amount, req[c].gasPrice,
                    "pending", Absent, Absent)
     IN \/ /\ db' = [db EXCEPT ![h] = row]
           /\ writes' = Put(writes, Write(<<"send", c>>, h, "absent", "pending"))
           /\ conf' = [conf EXCEPT ![c].entity = row]
           /\ \/ /\ notes' = Put(notes, Note(<<"send", c>>, h, "pending", Absent, Absent, NoText))
                 /\ pc' = [pc EXCEPT ![c] = "audit"]
                 /\ UNCHANGED <<result, faults>>
              \/ /\ MayFail
                 /\ faults' = faults + 1
                 /\ result' = [result EXCEPT ![c] = Raised("NotificationError", NoText)]
                 /\ pc' = [pc EXCEPT ![c] = "raised"]
                 /\ notes' = notes
        \/ /\ MayFail
           /\ faults' = faults + 1
           /\ result' = [result EXCEPT ![c] = Raised("QueryFailedError", NoText)]
           /\ pc' = [pc EXCEPT ![c] = "raised"]
           /\ UNCHANGED <<db, writes, conf, notes>>
  /\ UNCHANGED <<access, gas, req, tx, retry, seenBalance, estimate, hist, chain, chainNonce, audits>>

\* the TRANSACTION_INITIATED audit entry; then waitForConfirmationWithRetry(tx, 1) is
\* called without being awaited and the pending result is returned
SendAudit(c) ==
  /\ pc[c] = "audit"
  /\ Logged(Audit(<<"send", c>>, "TRANSACTION_INITIATED", retry[c].hash))
  /\ conf' = [conf EXCEPT ![c].pc = "wait"]
  /\ result' = [result EXCEPT ![c] = Returned(retry[c].hash)]
  /\ pc' = [pc EXCEPT ![c] = "returned"]
  /\ UNCHANGED <<access, gas, req, tx, retry, seenBalance, estimate, hist, db, chain, chainNonce, notes,
                 writes>>

-----------------------------------------------------------------------------
(* TransactionRetryService.waitForConfirmationWithRetry and the detached   *)
(* continuation of sendTransaction that consumes its result                *)

\* what the promise of waitForConfirmationWithRetry settles with
Resolved(receipt) ==
  [kind |-> "receipt", status |-> receipt.status, blockNumber |-> receipt.blockNumber,
   gasUsed |-> receipt.gasUsed]
ResolvedNull == [NoOutcome EXCEPT !.kind = "null"]

\* the confirmations argument of the continuation's call
Confirmations == 1

\* a loop that throws the last error when its attempts are used up
WaitCaughtRethrown(w) ==
  LET attempt == w.attempt + 1
  IN IF attempt < maxRetries
     THEN [w EXCEPT !.attempt = attempt, !.sleeps = @ + 1]
     ELSE [w EXCEPT !.attempt = attempt, !.outcome = [NoOutcome EXCEPT !.kind = "raised"]]

\* the catch block of the loop of waitForConfirmationWithRetry and, when the loop ends,
\* its return; w is the continuation's state
WaitCaught(w) ==
  LET attempt == w.attempt + 1
  IN IF attempt < maxRetries
     THEN [w EXCEPT !.attempt = attempt, !.sleeps = @ + 1]
     ELSE [w EXCEPT !.attempt = attempt, !.outcome = ResolvedNull]

\* the try block for a receipt that tx.wait resolved with
WaitReceived(w, receipt) ==
  IF receipt.status = 1 THEN [w EXCEPT !.outcome = Resolved(receipt)]
  ELSE IF receipt.status = 0 THEN WaitCaught(w)
  ELSE [w EXCEPT !.outcome = Resolved(receipt)]

\* the first statements of the .then handler, up to its await of save
ThenHandler(w) ==
  IF w.outcome.kind = "receipt"
  THEN [w EXCEPT !.entity.status = IF w.outcome.status = 1 THEN "confirmed" ELSE "failed",
                 !.entity.blockNumber = w.outcome.blockNumber,
                 !.entity.gasUsed = w.outcome.gasUsed,
                 !.pc = "save"]
  ELSE [w EXCEPT !.entity.status = "failed", !.pc = "save"]

\* the first statements of the .catch handler, up to its await of save
CatchHandler(w) == [w EXCEPT !.entity.status = "failed", !.pc = "catchSave"]

\* the promise chain: pending while the loop runs, .then when it resolves, .catch when
\* it rejects
Settle(w) ==
  IF w.outcome.kind = "none" THEN w
  ELSE IF w.outcome.kind = "raised" THEN CatchHandler(w)
  ELSE ThenHandler(w)

\* one tx.wait(confirmations) of the loop settles
ConfWait(c) ==
  /\ conf[c].pc = "wait"
  /\ LET h == retry[c].hash
         w == [conf[c] EXCEPT !.waits = @ + 1]
     IN \/ /\ Mined(h)
           /\ conf' = [conf EXCEPT ![c] =
                         Settle(WaitReceived([w EXCEPT !.receipts = @ + 1], Receipt(h)))]
        \/ /\ ~Mined(h)
           /\ Confirmations = 0
           /\ conf' = [conf EXCEPT ![c] = ThenHandler([w EXCEPT !.outcome = ResolvedNull])]
        \/ conf' = [conf EXCEPT ![c] = Settle(WaitCaught(w))]
  /\ UNCHANGED <<access, gas, pc, req, tx, retry, seenBalance, estimate, result, hist, db, chain,
                 chainNonce, notes, audits, writes, faults>>

\* what the .then handler notifies after its save
ThenNote(c, w) ==
  IF w.outcome.kind = "receipt"
  THEN Note(<<"conf", c>>, retry[c].hash, w.entity.status, w.outcome.blockNumber,
            w.outcome.gasUsed, NoText)
  ELSE Note(<<"conf", c>>, retry[c].hash, "failed", Absent, Absent,
            Sentence("Confirmation timeout", <<>>))

\* transactionRepository.save(savedTransaction) of the .then handler, then the
\* notification; a failure of either starts the .catch handler
ConfSave(c) ==
  /\ conf[c].pc = "save"
  /\ LET h == retry[c].hash
         w == conf[c]
     IN \/ /\ db' = [db EXCEPT ![h] = SaveRow(db[h], w.entity)]
           /\ writes' = Put(writes, Write(<<"conf", c>>, h, db[h].status, w.entity.status))
           /\ \/ /\ notes' = Put(notes, ThenNote(c, w))
                 /\ conf' = [conf EXCEPT ![c].pc = "audit"]
                 /\ faults' = faults
              \/ /\ MayFail
                 /\ faults' = faults + 1
                 /\ notes' = notes
                 /\ conf' = [conf EXCEPT ![c] = CatchHandler(w)]
        \/ /\ MayFail
           /\ faults' = faults + 1
           /\ conf' = [conf EXCEPT ![c] = CatchHandler(w)]
           /\ UNCHANGED <<db, writes, notes>>
  /\ UNCHANGED <<access, gas, pc, req, tx, retry, seenBalance, estimate, result, hist, chain, chainNonce,
                 audits>>

\* the audit entry of the .then handler
ConfAudit(c) ==
  /\ conf[c].pc = "audit"
  /\ Logged(Audit(<<"conf", c>>,
                  IF conf[c].entity.status = "confirmed" THEN "TRANSACTION_CONFIRMED"
                  ELSE "TRANSACTION_FAILED",
                  retry[c].hash))
  /\ conf' = [conf EXCEPT ![c].pc = "done"]
  /\ UNCHANGED <<access, gas, pc, req, tx, retry, seenBalance, estimate, result, hist, db, chain,
                 chainNonce, notes, writes>>

\* transactionRepository.save(savedTransaction) of the .catch handler, then its
\* notification with the raw error.message; a failure here rejects the promise chain
ConfCatchSave(c) ==
  /\ conf[c].pc = "catchSave"
  /\ LET h == retry[c].hash
         w == conf[c]
     IN \/ /\ db' = [db EXCEPT ![h] = SaveRow(db[h], w.entity)]
           /\ writes' = Put(writes, Write(<<"conf", c>>, h, db[h].status, w.entity.status))
           /\ \/ /\ notes' = Put(notes, Note(<<"conf", c>>, h, "failed", Absent, Absent,
                                                Sentence("${error.message}", <<>>)))
                 /\ conf' = [conf EXCEPT ![c].pc = "catchAudit"]
                 /\ faults' = faults
              \/ /\ MayFail
                 /\ faults' = faults + 1
                 /\ notes' = notes
                 /\ conf' = [conf EXCEPT ![c].pc = "rejected"]
        \/ /\ MayFail
           /\ faults' = faults + 1
           /\ conf' = [conf EXCEPT ![c].pc = "rejected"]
           /\ UNCHANGED <<db, writes, notes>>
  /\ UNCHANGED <<access, gas, pc, req, tx, retry, seenBalance, estimate, result, hist, chain, chainNonce,
                 audits>>

\* the audit entry of the .catch handler
ConfCatchAudit(c) ==
  /\ conf[c].pc = "catchAudit"
  /\ Logged(Audit(<<"conf", c>>, "TRANSACTION_FAILED", retry[c].hash))
  /\ conf' = [conf EXCEPT ![c].pc = "done"]
  /\ UNCHANGED <<access, gas, pc, req, tx, retry, seenBalance, estimate, result, hist, db, chain,
                 chainNonce, notes, writes>>


\* waitForConfirmationWithRetry(tx, 1).then(...).catch(...) is run once more for the same
\* tx and the same savedTransaction after the continuation has finished
ConfRerun(c) ==
  /\ conf[c].pc = "done"
  /\ conf[c].runs < MaxReruns
  /\ conf' = [conf EXCEPT ![c] =
                [NoConf EXCEPT !.pc = "wait", !.entity = conf[c].entity,
                               !.runs = conf[c].runs + 1, !.previous = conf[c].outcome]]
  /\ UNCHANGED <<access, gas, pc, req, tx, retry, seenBalance, estimate, result, hist, db, chain,
                 chainNonce, notes, audits, writes, faults>>
-----------------------------------------------------------------------------
(* WalletService.getTransactionHistory                                     *)

\* a filter that keeps every transaction
IsStored(row) == row.status # "absent"

\* transactions.filter(tx => tx.status === 'pending')
IsPending(row) == row.status = "pending"

\* getWallet and transactionRepository.find; every pending transaction gets a branch of
\* the Promise.all, which runs up to its await of getTransactionReceipt
HistFind(g) ==
  /\ hist[g].pc = "idle"
  /\ \A f \in Hists : f < g => hist[f].pc # "idle"
  /\ \E walletOk \in BOOLEAN :
       hist' = [hist EXCEPT ![g] =
                  IF ~walletOk THEN [NoHist EXCEPT !.pc = "raised", !.walletOk = FALSE]
                  ELSE [NoHist EXCEPT
                          !.pc = "running",
                          !.branch = [h \in Hashes |->
                                        [pc |-> IF IsPending(db[h]) THEN "receipt"
                                                ELSE "off",
                                         read |-> db[h].status,
                                         entity |-> db[h]]]]]
  /\ UNCHANGED <<access, gas, pc, req, tx, retry, seenBalance, estimate, result, conf, db, chain,
                 chainNonce, notes, audits, writes, faults>>

\* provider.getTransactionReceipt(tx.transactionHash) of one branch answers: a receipt,
\* null, or an error, which the branch's catch swallows
HistReceipt(g, h) ==
  /\ hist[g].pc = "running"
  /\ hist[g].branch[h].pc = "receipt"
  /\ \/ /\ Mined(h)
        /\ hist' = [hist EXCEPT
                      ![g].branch[h].entity.status =
                         IF Receipt(h).status = 1 THEN "confirmed" ELSE "failed",
                      ![g].branch[h].entity.blockNumber = Receipt(h).blockNumber,
                      ![g].branch[h].entity.gasUsed = Receipt(h).gasUsed,
                      ![g].branch[h].pc = "save"]
     \/ hist' = [hist EXCEPT ![g].branch[h].pc = "done"]
  /\ UNCHANGED <<access, gas, pc, req, tx, retry, seenBalance, estimate, result, conf, db, chain,
                 chainNonce, notes, audits, writes, faults>>

\* transactionRepository.save(tx) of one branch, then its notification; the branch's
\* catch swallows a failure of either
HistSave(g, h) ==
  /\ hist[g].pc = "running"
  /\ hist[g].branch[h].pc = "save"
  /\ LET e == hist[g].branch[h].entity
     IN \/ /\ db' = [db EXCEPT ![h] = SaveRow(db[h], e)]
           /\ writes' = Put(writes, Write(<<"hist", g>>, h, db[h].status, e.status))
           /\ \/ /\ notes' = Put(notes, Note(<<"hist", g>>, h, e.status, e.blockNumber,
                                                e.gasUsed, NoText))
                 /\ hist' = [hist EXCEPT ![g].branch[h].pc = "audit"]
                 /\ faults' = faults
              \/ /\ MayFail
                 /\ faults' = faults + 1
                 /\ notes' = notes
                 /\ hist' = [hist EXCEPT ![g].branch[h].pc = "done"]
        \/ /\ MayFail
           /\ faults' = faults + 1
           /\ hist' = [hist EXCEPT ![g].branch[h].pc = "done"]
           /\ UNCHANGED <<db, writes, notes>>
  /\ UNCHANGED <<access, gas, pc, req, tx, retry, seenBalance, estimate, result, conf, chain, chainNonce,
                 audits>>

\* the audit entry of one branch
HistAudit(g, h) ==
  /\ hist[g].pc = "running"
  /\ hist[g].branch[h].pc = "audit"
  /\ Logged(Audit(<<"hist", g>>,
                  IF hist[g].branch[h].entity.status = "confirmed" THEN "TRANSACTION_CONFIRMED"
                  ELSE "TRANSACTION_FAILED",
                  h))
  /\ hist' = [hist EXCEPT ![g].branch[h].pc = "done"]
  /\ UNCHANGED <<access, gas, pc, req, tx, retry, seenBalance, estimate, result, conf, db, chain,
                 chainNonce, notes, writes>>

\* Promise.all has settled: the entities are mapped to the response
HistReturn(g) ==
  /\ hist[g].pc = "running"
  /\ \A h \in Hashes : hist[g].branch[h].pc \in {"off", "done"}
  /\ hist' = [hist EXCEPT ![g].pc = "done",
                          ![g].returned = [h \in Hashes |-> hist[g].branch[h].entity.status]]
  /\ UNCHANGED <<access, gas, pc, req, tx, retry, seenBalance, estimate, result, conf, db, chain,
                 chainNonce, notes, audits, writes, faults>>

-----------------------------------------------------------------------------
(* The network mines a transaction of its pool                             *)

Mine(h) ==
  /\ chain[h] = "mempool"
  /\ \E outcome \in {"success", "reverted"} : chain' = [chain EXCEPT ![h] = outcome]
  /\ UNCHANGED <<access, gas, pc, req, tx, retry, seenBalance, estimate, result, conf, hist, db,
                 chainNonce, notes, audits, writes, faults>>

-----------------------------------------------------------------------------
(* Specification                                                           *)

Next ==
  \/ \E c \in Senders : SendStart(c)
  \/ \E c \in Calls : SendEstimate(c)
  \/ \E c \in Calls : SendBalance(c)
  \/ \E c \in Calls : Prepare(c)
  \/ \E c \in Calls : Broadcast(c)
  \/ \E c \in Calls : SendPersist(c)
  \/ \E c \in Calls : SendAudit(c)
  \/ \E c \in Calls : ConfWait(c)
  \/ \E c \in Calls : ConfSave(c)
  \/ \E c \in Calls : ConfAudit(c)
  \/ \E c \in Calls : ConfCatchSave(c)
  \/ \E c \in Calls : ConfCatchAudit(c)
  \/ \E g \in Hists : HistFind(g)
  \/ \E g \in Hists, h \in Hashes : HistReceipt(g, h)
  \/ \E g \in Hists, h \in Hashes : HistSave(g, h)
  \/ \E g \in Hists, h \in Hashes : HistAudit(g, h)
  \/ \E g \in Hists : HistReturn(g)
  \/ \E h \in Hashes : Mine(h)

Spec == Init /\ [][Next]_vars

\* The steps that the event loop schedules by itself once a call is in progress: the
\* awaits of sendTransaction, of its continuation and of getTransactionHistory settle
SendSteps ==
  \/ \E c \in Calls : SendEstimate(c)
  \/ \E c \in Calls : SendBalance(c)
  \/ \E c \in Calls : Prepare(c)
  \/ \E c \in Calls : Broadcast(c)
  \/ \E c \in Calls : SendPersist(c)
  \/ \E c \in Calls : SendAudit(c)

ConfSteps ==
  \/ \E c \in Calls : ConfWait(c)
  \/ \E c \in Calls : ConfSave(c)
  \/ \E c \in Calls : ConfAudit(c)
  \/ \E c \in Calls : ConfCatchSave(c)
  \/ \E c \in Calls : ConfCatchAudit(c)

HistSteps ==
  \/ \E g \in Hists, h \in Hashes : HistReceipt(g, h)
  \/ \E g \in Hists, h \in Hashes : HistSave(g, h)
  \/ \E g \in Hists, h \in Hashes : HistAudit(g, h)
  \/ \E g \in Hists : HistReturn(g)

\* The pipeline in which every await eventually settles; when calls arrive and when
\* the network mines a transaction is up to the environment
SpecFair ==
  Init /\ [][Next]_vars /\ WF_vars(SendSteps) /\ WF_vars(ConfSteps) /\ WF_vars(HistSteps)

\* The pipeline with collaborators that never fail: persistence, notification and audit
\* calls always succeed, so the .catch handler of the continuation never runs
NextReliable ==
  \/ \E c \in Senders : SendStart(c)
  \/ \E c \in Calls : SendEstimate(c)
  \/ \E c \in Calls : SendBalance(c)
  \/ \E c \in Calls : Prepare(c)
  \/ \E c \in Calls : Broadcast(c)
  \/ \E c \in Calls : SendPersist(c)
  \/ \E c \in Calls : SendAudit(c)
  \/ \E c \in Calls : ConfWait(c)
  \/ \E c \in Calls : ConfSave(c)
  \/ \E c \in Calls : ConfAudit(c)
  \/ \E g \in Hists : HistFind(g)
  \/ \E g \in Hists, h \in Hashes : HistReceipt(g, h)
  \/ \E g \in Hists, h \in Hashes : HistSave(g, h)
  \/ \E g \in Hists, h \in Hashes : HistAudit(g, h)
  \/ \E g \in Hists : HistReturn(g)
  \/ \E h \in Hashes : Mine(h)

SpecReliable == InitReliable /\ [][NextReliable]_vars

\* The pipeline with reliable collaborators in which the continuation of a call is
\* run a second time
NextRerun ==
  \/ \E c \in Senders : SendStart(c)
  \/ \E c \in Calls : SendEstimate(c)
  \/ \E c \in Calls : SendBalance(c)
  \/ \E c \in Calls : Prepare(c)
  \/ \E c \in Calls : Broadcast(c)
  \/ \E c \in Calls : SendPersist(c)
  \/ \E c \in Calls : SendAudit(c)
  \/ \E c \in Calls : ConfWait(c)
  \/ \E c \in Calls : ConfSave(c)
  \/ \E c \in Calls : ConfAudit(c)
  \/ \E g \in Hists : HistFind(g)
  \/ \E g \in Hists, h \in Hashes : HistReceipt(g, h)
  \/ \E g \in Hists, h \in Hashes : HistSave(g, h)
  \/ \E g \in Hists, h \in Hashes : HistAudit(g, h)
  \/ \E g \in Hists : HistReturn(g)
  \/ \E h \in Hashes : Mine(h)
  \/ \E c \in Calls : ConfRerun(c)

SpecRerun == InitReliable /\ [][NextRerun]_vars

\* executeWithRetry called on its own, for every request of DirectRequests
NextRetry ==
  \/ \E c \in Calls : Prepare(c)
  \/ \E c \in Calls : Broadcast(c)

SpecRetry == InitRetry /\ [][NextRetry]_vars

\* Every call is a sendTransaction call of the same wallet that has passed its balance
\* check with caller-supplied gas parameters and enters executeWithRetry
ConcurrentRequests == {r \in Requests : r.walletOk /\ ~UsesEstimator(r)}

InitConcurrent ==
  /\ pc = [c \in Calls |-> "prepare"]
  /\ req \in [Calls -> ConcurrentRequests]
  /\ tx = [c \in Calls |-> ManualTx(req[c])]
  /\ retry = [c \in Calls |-> NoRetry]
  /\ seenBalance = [c \in Calls |-> Absent]
  /\ estimate = [c \in Calls |-> NoEstimate]
  /\ result = [c \in Calls |-> NoResult]
  /\ conf = [c \in Calls |-> NoConf]
  /\ hist = [h \in Hists |-> NoHist]
  /\ db = [h \in Hashes |-> NoRow]
  /\ chain = [h \in Hashes |-> "none"]
  /\ chainNonce \in {0, 2}
  /\ notes = EmptyBag
  /\ audits = EmptyBag
  /\ writes = EmptyBag
  /\ faults = MaxFaults
  /\ gas = NoGas
  /\ access = NoAccess

SpecConcurrent == InitConcurrent /\ [][NextRetry]_vars

-----------------------------------------------------------------------------
(* GasEstimationService called on its own                                  *)

HistoryLimit == 10

\* what the provider answers to getFeeData during an estimate, and to the second
\* getFeeData of detectCongestion
GasFeeDatas ==
  {Failed, FeeData(Absent, Absent, Absent), FeeData(25, Absent, Absent),
   FeeData(600, Absent, Absent), FeeData(18, 30, 3), FeeData(30, 490, 20),
   FeeData(30, 300, 400)}
CongestionDatas == {Failed, FeeData(60, Absent, Absent)}
Urgencies == {"low", "medium", "high"}

\* the gas used that the k-th receipt of a transaction to address a reports
GasObserved(a, k) == (IF a = Recipient THEN TransferGas ELSE ContractGas) + k

\* recordGasUsage without the shift of the oldest entry
recordGasUsageUnbounded(table, address, gasUsed) ==
  IF address = "" THEN table
  ELSE [table EXCEPT ![address] = Append(@, gasUsed)]

\* recordGasUsage(address, gasUsed) on the table historicalGasUsage
recordGasUsage(table, address, gasUsed) ==
  IF address = "" THEN table
  ELSE LET pushed == Append(table[address], gasUsed)
       IN [table EXCEPT ![address] =
             IF Len(pushed) > HistoryLimit THEN Tail(pushed) ELSE pushed]

\* the number of recordGasUsage calls so far
RECURSIVE SumOver(_, _)
SumOver(f, S) ==
  IF S = {} THEN 0 ELSE LET a == CHOOSE x \in S : TRUE IN f[a] + SumOver(f, S \ {a})

RecordGasUsage(a) ==
  /\ SumOver(gas.recorded, Addresses) < MaxRecords
  /\ gas' = [gas EXCEPT
               !.history = recordGasUsage(@, a, GasObserved(a, gas.recorded[a] + 1)),
               !.recorded[a] = @ + 1]
  /\ UNCHANGED <<access, pc, req, tx, retry, seenBalance, estimate, result, conf, hist, db, chain,
                 chainNonce, notes, audits, writes, faults>>

\* estimateGas(transaction, urgency) for a transaction to address a
EstimateGas(a) ==
  /\ gas.estimates < MaxEstimates
  /\ \E estimated \in EstimateResults, hasData \in BOOLEAN, feeData \in GasFeeDatas,
        congestionData \in CongestionDatas, urgency \in Urgencies :
       gas' = [gas EXCEPT
                 !.estimates = @ + 1,
                 !.call = [address |-> a, estimated |-> estimated, hasData |-> hasData,
                           feeData |-> feeData, congestionData |-> congestionData,
                           urgency |-> urgency],
                 !.plan = estimateGas(estimated, hasData, feeData, congestionData,
                                      gas.history[a], urgency)]
  /\ UNCHANGED <<access, pc, req, tx, retry, seenBalance, estimate, result, conf, hist, db, chain,
                 chainNonce, notes, audits, writes, faults>>

NextGas ==
  \/ \E a \in Addresses : RecordGasUsage(a)
  \/ \E a \in Addresses : EstimateGas(a)

SpecGas == Init /\ [][NextGas]_vars

-----------------------------------------------------------------------------
(* WalletService.getBalance and WalletService.signMessage                  *)

\* a getWallet that returns the wallet whoever owns it
getWalletUnchecked(found) == "wallet"

\* getWallet(walletId, userId): found is whether walletRepository.findOne has a wallet
\* with this id and this user
getWallet(found) == IF found THEN "wallet" ELSE "NotFoundError"

\* what the call did and how it ended
Accessed(op, found, error) ==
  [access EXCEPT !.calls = @ + 1, !.last = [op |-> op, walletOk |-> found, error |-> error]]

\* getBalance(data, userId): getWallet, then provider.getBalance, which answers or throws
GetBalance ==
  /\ access.calls < MaxAccesses
  /\ \E found \in BOOLEAN :
       IF getWallet(found) = "NotFoundError"
       THEN access' = Accessed("getBalance", found, "NotFoundError")
       ELSE \E error \in {"", "ProviderError"} :
              access' = [Accessed("getBalance", found, error) EXCEPT !.balanceReads = @ + 1]
  /\ UNCHANGED <<pc, req, tx, retry, seenBalance, estimate, result, conf, hist, db, chain,
                 chainNonce, notes, audits, writes, faults, gas>>

\* signMessage(data, userId): getWallet, decrypt, sign, then signedMessageRepository.save,
\* which succeeds or throws
SignMessage ==
  /\ access.calls < MaxAccesses
  /\ \E found \in BOOLEAN :
       IF getWallet(found) = "NotFoundError"
       THEN access' = Accessed("signMessage", found, "NotFoundError")
       ELSE \/ access' = [Accessed("signMessage", found, "") EXCEPT
                            !.decrypts = @ + 1, !.signatures = @ + 1]
            \/ access' = [Accessed("signMessage", found, "QueryFailedError") EXCEPT
                            !.decrypts = @ + 1]
  /\ UNCHANGED <<pc, req, tx, retry, seenBalance, estimate, result, conf, hist, db, chain,
                 chainNonce, notes, audits, writes, faults, gas>>

\* the four operations that resolve a wallet first, up to the first await after getWallet
NextAccess ==
  \/ \E c \in Senders : SendStart(c)
  \/ \E g \in Hists : HistFind(g)
  \/ GetBalance
  \/ SignMessage

SpecAccess == Init /\ [][NextAccess]_vars

-----------------------------------------------------------------------------
(* Properties                                                              *)

\* the sendTransaction call whose attempts broadcast hash h
OwnerOf(h) == (h - 1) \div maxRetries + 1

\* the entries of bag b that satisfy Keep
Only(b, Keep(_)) == [e \in {x \in BagToSet(b) : Keep(x)} |-> CopiesIn(e, b)]

Terminal(status) == status \in {"confirmed", "failed"}

\* the terminal notifications and the terminal audit entries of hash h so far
TerminalNotes(h) ==
  LET Keep(n) == n.transactionHash = h /\ Terminal(n.status)
  IN BagCardinality(Only(notes, Keep))

TerminalAudits(h) ==
  LET Keep(a) == /\ a.transactionHash = h
                 /\ a.eventType \in {"TRANSACTION_CONFIRMED", "TRANSACTION_FAILED"}
  IN BagCardinality(Only(audits, Keep))

\* the writes to the record of hash h after its insert, all of them and those of one writer
LaterWrites(h) ==
  LET Keep(w) == w.transactionHash = h /\ w.from # "absent"
  IN Only(writes, Keep)

WritesBy(by, h) ==
  LET Keep(w) == w.transactionHash = h /\ w.from # "absent" /\ w.by = by
  IN BagCardinality(Only(writes, Keep))

\* the records that call c created
RecordsOf(c) == {k \in 1..maxRetries : db[HashOf(c, k)].status # "absent"}

\* executeWithRetry of call c has thrown: the loop is over and its last attempt failed
ExecRaised(c) == pc[c] \notin {"prepare", "broadcast"} /\ retry[c].lastError # NoError

\* executeWithRetry of call c has returned a TransactionResponse
Submitted(c) ==
  /\ pc[c] \notin {"idle", "estimate", "balance", "prepare", "broadcast"}
  /\ retry[c].lastError = NoError
  /\ retry[c].hash # NoHash

\* C1: the status of a record only moves forward. A record is created as pending, and
\* once it is confirmed or failed no step of sendTransaction, of the confirmation
\* continuation or of getTransactionHistory changes its status again.
C1_StatusMonotonic ==
  [][\A h \in Hashes :
       /\ db[h].status = "absent" => db'[h].status \in {"absent", "pending"}
       /\ db[h].status = "pending" => db'[h].status # "absent"
       /\ Terminal(db[h].status) => db'[h].status = db[h].status]_vars

\* C2: for every hash at most one terminal notification and at most one terminal audit
\* entry are produced, and exactly one of each once the continuation has finished.
C2_OneTerminalEvent ==
  \A h \in Hashes :
    /\ TerminalNotes(h) <= 1
    /\ TerminalAudits(h) <= 1
    /\ (conf[OwnerOf(h)].pc = "done" /\ retry[OwnerOf(h)].hash = h)
         => TerminalNotes(h) = 1 /\ TerminalAudits(h) = 1

C4_InsufficientBalance ==
  \A c \in Calls :
    (seenBalance[c] # Absent /\ seenBalance[c] < req[c].amount + DeclaredCost(c))
      => /\ pc[c] = "raised"
         /\ result[c].error = "InsufficientBalanceError"
         /\ retry[c].sends = 0
         /\ RecordsOf(c) = {}

\* C5: when executeWithRetry raises, sendTransaction raises to its caller, no record is
\* created and no confirmation continuation is launched.
C5_RaiseLeavesNothing ==
  \A c \in Calls :
    ExecRaised(c)
      => /\ pc[c] = "raised"
         /\ result[c].kind = "raised"
         /\ result[c].error \in {"ProviderError", "Error"}
         /\ RecordsOf(c) = {}
         /\ conf[c].pc = "off"
         /\ \A n \in BagToSet(notes) : OwnerOf(n.transactionHash) # c

\* C5 witness: a call whose executeWithRetry used up its attempts and raised
C5_Exhausted ==
  \E c \in Calls :
    ExecRaised(c) /\ retry[c].attempt = maxRetries /\ result[c].kind = "raised"

C7_RevertKeepsBlockAndGas ==
  \A c \in Calls :
    conf[c].pc \in {"audit", "done"}
      => LET h == retry[c].hash
         IN /\ (conf[c].receipts > 0 /\ chain[h] = "reverted")
                 => /\ db[h].status = "failed"
                    /\ db[h].blockNumber = BlockOf(h)
                    /\ db[h].gasUsed = GasUsedOf(h)
            /\ (conf[c].receipts = 0 /\ conf[c].outcome.kind = "null")
                 => /\ db[h].status = "failed"
                    /\ db[h].blockNumber = Absent
                    /\ db[h].gasUsed = Absent

\* C8: waitForConfirmationWithRetry resolves with null only when no attempt obtained a
\* receipt; when an attempt obtained one, also one that indicates revert, it resolves
\* with that receipt.
C8_NullOnlyWithoutReceipt ==
  \A c \in Calls :
    /\ conf[c].outcome.kind = "null" => conf[c].receipts = 0
    /\ (conf[c].receipts > 0 /\ conf[c].pc \notin {"off", "wait"})
         => conf[c].outcome.kind = "receipt"

\* C9: waitForConfirmationWithRetry never raises: a failed wait attempt is retried or,
\* when it was attempt maxRetries, turned into null; it makes at most maxRetries
\* attempts.
C9_WaitNeverRaises ==
  \A c \in Calls :
    /\ conf[c].outcome.kind \in {"none", "receipt", "null"}
    /\ conf[c].waits <= maxRetries
    /\ conf[c].attempt <= conf[c].waits
    /\ conf[c].attempt = maxRetries => conf[c].outcome.kind = "null"
    /\ (conf[c].outcome.kind = "none" /\ conf[c].pc # "off")
         => /\ conf[c].pc = "wait"
            /\ conf[c].attempt < maxRetries
            /\ conf[c].sleeps = conf[c].attempt
    /\ conf[c].pc \notin {"catchSave", "catchAudit", "rejected"} \/ faults > 0

\* C9 witness: every one of the maxRetries wait attempts failed and the result is null
C9_GaveUp ==
  \E c \in Calls :
    /\ conf[c].outcome.kind = "null"
    /\ conf[c].waits = maxRetries
    /\ conf[c].receipts = 0

\* C10: when every attempt of executeWithRetry failed with a retryable error, it has
\* made exactly maxRetries attempts, slept maxRetries - 1 times, and raises one Error
\* whose message is parseErrorMessage of the last failure's message ('Transaction
\* failed' for an empty one); while it runs it has slept once after every failed attempt.
C10_ExhaustedRetries ==
  \A c \in Calls :
    /\ retry[c].lastError # NoError /\ pc[c] \in {"prepare", "broadcast"}
         => /\ retry[c].attempt < maxRetries
            /\ retry[c].sends = retry[c].attempt
            /\ retry[c].sleeps = retry[c].attempt
            /\ isRetryableError(ErrorCatalog[retry[c].lastError])
    /\ (/\ pc[c] = "raised"
        /\ retry[c].lastError # NoError
        /\ isRetryableError(ErrorCatalog[retry[c].lastError]))
         => /\ retry[c].attempt = maxRetries
            /\ retry[c].sends = maxRetries
            /\ retry[c].sleeps = maxRetries - 1
            /\ result[c].kind = "raised"
            /\ result[c].error = "Error"
            /\ result[c].message = parseErrorMessage(MessageOf(ErrorCatalog[retry[c].lastError]))

\* C10 witness: the attempts are used up and the error raised is not the last failure's
\* message as it came
C10_RaisedRewritten ==
  \E c \in Calls :
    /\ pc[c] = "raised"
    /\ retry[c].attempt = maxRetries
    /\ retry[c].sleeps = maxRetries - 1
    /\ isRetryableError(ErrorCatalog[retry[c].lastError])
    /\ result[c].message # Sentence("${message}", ErrorCatalog[retry[c].lastError].message)

-----------------------------------------------------------------------------
(* Properties of the retry policy                                          *)

\* what kind of fault each error of ErrorCatalog is
ErrorClass ==
  <<"network", "timeout", "nonce-too-low", "insufficient-funds", "revert", "rate-limit",
    "gas-misestimation", "server", "server", "invalid-argument", "timeout">>

\* the kinds of fault that are to be retried
RetryableClasses ==
  {"network", "timeout", "server", "rate-limit", "nonce-too-low", "replacement-underpriced",
   "gas-misestimation"}

\* C11: executeWithRetry retries an error if and only if it is a network-level fault,
\* rate limiting, nonce-too-low, replacement-underpriced or a gas misestimation: after
\* such a failure the loop goes on while attempts are left, and after any other failure
\* the call has ended with that attempt, without a delay for it.
C11_RetriesExactlyRetryable ==
  \A c \in Calls :
    retry[c].lastError # NoError
      => IF ErrorClass[retry[c].lastError] \in RetryableClasses
         THEN retry[c].attempt < maxRetries
                => pc[c] \in {"prepare", "broadcast"} /\ retry[c].sleeps = retry[c].attempt
         ELSE /\ pc[c] = "raised"
              /\ retry[c].sends = retry[c].attempt
              /\ retry[c].sleeps = retry[c].attempt - 1

\* C12: across the attempts of one executeWithRetry call the fee price never goes down:
\* the gasPrice of the request an attempt submits is at least the gasPrice of the
\* request the previous attempt submitted.
C12_PriceNeverDecreases ==
  [][\A c \in Calls :
       (/\ pc[c] = "prepare"
        /\ pc'[c] = "broadcast"
        /\ retry[c].attempt > 0
        /\ tx[c].gasPrice # Absent
        /\ tx'[c].gasPrice # Absent)
         => tx'[c].gasPrice >= tx[c].gasPrice]_vars

\* C13: every delay executeWithRetry sleeps, the one after failed attempt k for every k
\* the attempt budget allows and every jitter value, is at most maxDelayMs and at least
\* half of initialDelayMs * backoffMultiplier^(k - 1).
C13_DelayBounds ==
  \A c \in Calls :
    (pc[c] \in {"prepare", "broadcast"} /\ retry[c].attempt > 0)
      => /\ retry[c].lastDelay <= maxDelayMs
         /\ 2 * retry[c].lastDelay
              >= initialDelayMs * Pow(backoffMultiplier, retry[c].attempt - 1)
         /\ retry[c].lastDelay
              <= initialDelayMs * Pow(backoffMultiplier, retry[c].attempt - 1)

\* C13 witness: the delay after the last failed attempt that is followed by a delay,
\* with a jitter factor above 0.5
C13_JitteredDelay ==
  \E c \in Calls :
    /\ pc[c] = "prepare"
    /\ retry[c].attempt = maxRetries - 1
    /\ 2 * retry[c].lastDelay > initialDelayMs * Pow(backoffMultiplier, retry[c].attempt - 1)

\* C14: on every retry (attempt > 0) of a request whose nonce the caller did not pin,
\* the nonce submitted is the account's pending nonce as the network has it during that
\* attempt.
C14_RetryNonceIsFresh ==
  [][\A c \in Calls :
       (/\ pc[c] = "prepare"
        /\ pc'[c] = "broadcast"
        /\ retry[c].attempt > 0
        /\ ~retry[c].pinned)
         => retry'[c].nonce = chainNonce]_vars

\* C15: two sendTransaction calls of the same account that are in progress at the same
\* time never submit transactions with the same nonce.
C15_DistinctNonces ==
  \A c, d \in Calls :
    (c # d /\ pc[c] = "broadcast" /\ pc[d] = "broadcast")
      => retry[c].nonce # retry[d].nonce

-----------------------------------------------------------------------------
(* Properties of the gas estimation                                        *)

\* C16: estimateGas never raises: whatever the provider calls do, it returns a plan with
\* a gas limit, a price, a cost and a congestion level; and when getFeeData throws, the
\* plan is exactly the fallback: gas limit 100000, gas price 30 gwei, not EIP-1559,
\* congestion medium.
C16_EstimateNeverRaises ==
  gas.estimates > 0
    => /\ gas.plan.congestionLevel \in {"low", "medium", "high"}
       /\ gas.plan.gasLimit > 0
       /\ gas.plan.estimatedCost > 0
       /\ gas.plan.gasPrice > 0 \/ gas.plan.maxFeePerGas > 0
       /\ gas.call.feeData.failed
            => gas.plan = [gasLimit |-> 100000, gasPrice |-> 30, maxFeePerGas |-> Absent,
                           maxPriorityFeePerGas |-> Absent, estimatedCost |-> 100000 * 30,
                           isEIP1559 |-> FALSE, congestionLevel |-> "medium"]

\* C16 witness: an estimate during which estimateGas and both getFeeData calls of the
\* provider threw
C16_EverythingFailed ==
  /\ gas.estimates > 0
  /\ gas.call.feeData.failed
  /\ gas.call.congestionData.failed
  /\ gas.call.estimated = Absent

\* C17: every price of a plan that estimateGas returns, gasPrice, maxFeePerGas and
\* maxPriorityFeePerGas, is at most maxGasPrice, whatever fee data the network reports
\* and whatever the urgency.
C17_PricesCapped ==
  gas.estimates > 0
    => /\ gas.plan.gasPrice <= maxGasPrice
       /\ gas.plan.maxFeePerGas <= maxGasPrice
       /\ gas.plan.maxPriorityFeePerGas <= maxGasPrice

\* C18: when the confirmation continuation has finished with a receipt, or a
\* getTransactionHistory call has returned after it obtained one, the receipt's gas used
\* is in the history that the estimator keeps for the address the transaction went to.
C18_ReceiptsRecorded ==
  \A h \in Hashes :
    (\/ /\ retry[OwnerOf(h)].hash = h
        /\ conf[OwnerOf(h)].pc = "done"
        /\ conf[OwnerOf(h)].outcome.kind = "receipt"
     \/ \E g \in Hists : hist[g].pc = "done" /\ Terminal(hist[g].returned[h]))
      => \E i \in DOMAIN gas.history[Recipient] : gas.history[Recipient][i] = GasUsedOf(h)

\* C19: after any sequence of recordGasUsage calls the history of every address holds
\* at most 10 entries, and they are the most recent values recorded for that address,
\* in the order in which they were recorded.
C19_HistoryIsLastTen ==
  \A a \in Addresses \ {""} :
    LET n == gas.recorded[a]
        kept == IF n > HistoryLimit THEN HistoryLimit ELSE n
    IN /\ Len(gas.history[a]) = kept
       /\ \A i \in 1..kept : gas.history[a][i] = GasObserved(a, n - kept + i)

\* C19 witness: an address with more than 10 recorded values, the oldest of them gone
C19_OldestDropped ==
  \E a \in Addresses \ {""} :
    /\ gas.recorded[a] > HistoryLimit
    /\ gas.history[a][1] = GasObserved(a, gas.recorded[a] - HistoryLimit + 1)
    /\ gas.history[a][HistoryLimit] = GasObserved(a, gas.recorded[a])

\* C20: a failure of the notification sink or of the audit sink never fails the
\* pipeline. Once sendTransaction has persisted the record it goes on to return the
\* pending result and to launch the continuation, and the writes that the continuation
\* makes to a record all carry the same status.
C20_SinksNeverFail ==
  \A c \in Calls :
    /\ RecordsOf(c) # {}
         => /\ pc[c] \in {"audit", "returned"}
            /\ pc[c] = "returned" => result[c] = Returned(retry[c].hash) /\ conf[c].pc # "off"
    /\ \A v, w \in BagToSet(writes) :
         (v.by = <<"conf", c>> /\ w.by = <<"conf", c>> /\ v.transactionHash = w.transactionHash)
           => v.to = w.to

\* the continuation half of C20 on its own
C20_TerminalStatusKept ==
  \A v, w \in BagToSet(writes) :
    (v.by = w.by /\ v.by[1] = "conf" /\ v.transactionHash = w.transactionHash) => v.to = w.to

\* C21: the request that sendTransaction hands to executeWithRetry carries the caller's
\* value of every gas parameter that the caller supplied, and no estimated price in
\* the place of a supplied gasPrice.
C21_CallerGasKept ==
  \A c \in Calls :
    (pc[c] = "prepare" /\ retry[c].attempt = 0 /\ retry[c].sends = 0)
      => /\ req[c].gasLimit # Absent => tx[c].gasLimit = req[c].gasLimit
         /\ req[c].gasPrice # Absent
              => /\ tx[c].gasPrice = req[c].gasPrice
                 /\ tx[c].maxFeePerGas = Absent
                 /\ tx[c].maxPriorityFeePerGas = Absent

\* the texts that the message-normalization step produces, and the fixed texts of the
\* pipeline
NormalizedTexts ==
  {Normalized[e] : e \in ErrIds} \cup {NoText, Sentence("Confirmation timeout", <<>>)}

\* C22: the message of the error that executeWithRetry makes sendTransaction raise is
\* parseErrorMessage of the provider's message, and the error text of every
\* notification is a normalized or fixed text.
C22_MessagesNormalized ==
  /\ \A c \in Calls :
       (result[c].kind = "raised" /\ ExecRaised(c))
         => result[c].message = Normalized[retry[c].lastError]
  /\ \A n \in BagToSet(notes) : n.error \in NormalizedTexts

\* the notification half of C22 on its own
C22_NotesNormalized == \A n \in BagToSet(notes) : n.error \in NormalizedTexts

\* C23: when every await eventually settles, a record that was persisted as pending
\* eventually becomes confirmed or failed.
C23_PendingEventuallyTerminal ==
  \A h \in Hashes : (db[h].status = "pending") ~> Terminal(db[h].status)

\* C24: a second waitForConfirmationWithRetry on a handle for which the first returned
\* a receipt returns that receipt again, and a second run of the continuation leaves a
\* record that is confirmed or failed as it is.
C24_SecondRunChangesNothing ==
  [][\A c \in Calls :
       conf'[c].runs > 0
         => /\ (conf'[c].previous.kind = "receipt" /\ conf'[c].outcome.kind # "none")
                 => conf'[c].outcome = conf'[c].previous
            /\ Terminal(db[retry[c].hash].status)
                 => db'[retry[c].hash] = db[retry[c].hash]]_vars

\* C25: every attempt of executeWithRetry submits the nonce that the caller pinned in
\* the request (0 included) and the gas limit that the request carries; a retry changes
\* neither.
C25_PinnedValuesKept ==
  [][\A c \in Calls :
       (pc[c] = "prepare" /\ pc'[c] = "broadcast")
         => /\ retry[c].pinned
                 => tx'[c].nonce = tx[c].nonce /\ retry'[c].nonce = tx[c].nonce
            /\ tx[c].gasLimit # Absent => tx'[c].gasLimit = tx[c].gasLimit]_vars

\* C26: once a record exists it is never deleted, and no write changes its transaction
\* hash, wallet id, from and to addresses or amount.
C26_IdentityColumnsFrozen ==
  [][\A h \in Hashes :
       db[h].status # "absent"
         => /\ db'[h].status # "absent"
            /\ db'[h].transactionHash = db[h].transactionHash
            /\ db'[h].walletId = db[h].walletId
            /\ db'[h].from = db[h].from
            /\ db'[h].to = db[h].to
            /\ db'[h].amount = db[h].amount]_vars

\* C26 witness: a record that the continuation and getTransactionHistory have both
\* written after its creation and that still has the columns it was created with
C26_WrittenTwice ==
  \E h \in Hashes, g \in Hists :
    /\ WritesBy(<<"hist", g>>, h) > 0
    /\ WritesBy(<<"conf", OwnerOf(h)>>, h) > 0
    /\ db[h].blockNumber = BlockOf(h)
    /\ db[h].transactionHash = h
    /\ db[h].to = Recipient
    /\ db[h].amount = req[OwnerOf(h)].amount

\* no key is decrypted, the blockchain is not called and nothing is written in this step
NothingTouched ==
  /\ access'.decrypts = access.decrypts
  /\ access'.balanceReads = access.balanceReads
  /\ access'.signatures = access.signatures
  /\ UNCHANGED <<tx, retry, seenBalance, estimate, db, chain, chainNonce, notes, audits, writes>>

\* C27: sendTransaction, signMessage, getBalance and getTransactionHistory called with a
\* wallet id that getWallet does not find raise NotFoundError, and the call decrypts no
\* key, calls the blockchain for nothing and writes nothing.
C27_UnknownWalletRaises ==
  [][/\ \A c \in Calls :
          (pc[c] = "idle" /\ pc'[c] # "idle" /\ ~req'[c].walletOk)
            => /\ pc'[c] = "raised"
               /\ result'[c] = Raised("NotFoundError", NoText)
               /\ conf'[c].pc = "off"
               /\ NothingTouched
     /\ \A g \in Hists :
          (hist[g].pc = "idle" /\ hist'[g].pc # "idle" /\ ~hist'[g].walletOk)
            => /\ hist'[g].pc = "raised"
               /\ \A h \in Hashes : hist'[g].branch[h].pc = "off"
               /\ NothingTouched
     /\ (access'.calls > access.calls /\ ~access'.last.walletOk)
          => /\ access'.last.error = "NotFoundError"
             /\ NothingTouched]_vars

\* C27 witness: getBalance or signMessage has just raised NotFoundError after an earlier
\* call of an owner decrypted a key
C27_Refused ==
  /\ access.last.error = "NotFoundError"
  /\ access.last.op \in {"getBalance", "signMessage"}
  /\ access.decrypts > 0
  /\ \E c \in Calls : result[c].error = "NotFoundError"
  /\ \E g \in Hists : hist[g].pc = "raised"

\* the transactions of call c that the network has accepted
AcceptedOf(c) == {k \in 1..maxRetries : chain[HashOf(c, k)] # "none"}

\* C28: of the transactions that one executeWithRetry call submits, the network accepts
\* at most one.
C28_AtMostOneAccepted == \A c \in Calls : Cardinality(AcceptedOf(c)) <= 1

\* C29: in every EIP-1559 plan that estimateGas returns, maxPriorityFeePerGas is at most
\* maxFeePerGas.
C29_PriorityWithinMaxFee ==
  (gas.estimates > 0 /\ gas.plan.isEIP1559)
    => gas.plan.maxPriorityFeePerGas <= gas.plan.maxFeePerGas

\* the price that a unit of gas costs at most under plan
PriceOf(plan) == IF Truthy(plan.maxFeePerGas) THEN plan.maxFeePerGas ELSE plan.gasPrice

\* C30: in every plan that estimateGas returns, estimatedCost is the plan's gasLimit
\* times its maxFeePerGas, or times its gasPrice when it has no maxFeePerGas.
C30_CostCoversGasLimit ==
  gas.estimates > 0 => gas.plan.estimatedCost = gas.plan.gasLimit * PriceOf(gas.plan)

=============================================================================
